---- MODULE Spec2Model ----
(***************************************************************************)
(* Model of streamlit_chat_app.py: the page script main() that the host    *)
(* re-executes on every interaction over a session store that survives     *)
(* between executions, and send_chat_request().                            *)
(*                                                                         *)
(* The session store (st.session_state) is the set of variables            *)
(* token_stats, session_backup, messages, session_id, session_info and     *)
(* last_processed_prompt; a key that is not in the store holds Absent.     *)
(* Python lists are objects: messages and session_backup["messages"] are   *)
(* references into the heap `lists`, so that                               *)
(*   st.session_state._session_backup["messages"] = st.session_state.messages *)
(* makes both name ONE list.                                               *)
(* One execution of main() is a chain of steps ordered by pc; at each pc   *)
(* only the steps the script takes next are enabled.                       *)
(***************************************************************************)
EXTENDS Integers, Sequences, FiniteSets, TLC

\* Number of executions of the script that are explored.
MaxRuns == 3

(***************************************************************************)
(* Values                                                                  *)
(***************************************************************************)
\* Python's None, for the string-valued keys session_id and prompt.
None == "None"
\* A key that is not in the session store (string-valued keys).
Absent == "Absent"
\* None and a missing key for the dict-valued keys.
NoneDict == [tag |-> "None"]
AbsentDict == [tag |-> "Absent"]
\* The list reference of a key that is not in the store.
NoList == 0
ListIds == {1, 2}

\* What the user may type into st.chat_input (never the empty string).
Prompts == {"p1", "p2"}
\* Session ids the service issues: non-empty strings.
SessionIds == {"S1", "S2"}
\* Assistant texts the service returns.
Texts == {"hi"}
\* Values of the prompt and cached_tokens fields of a usage block.
TokenVals == {-1, 0, 1, 2}

\* Python truthiness of an optional string: None and "" are falsy.
Truthy(v) == v # None /\ v # ""

\* dict.get(key, default)
Get(d, key, default) == IF key \in DOMAIN d THEN d[key] ELSE default

\* Pricing per 1M tokens, in cents: $0.27 and $0.07.
CACHE_MISS_COST_PER_1M == 27
CACHE_HIT_COST_PER_1M == 7

(***************************************************************************)
(* State                                                                   *)
(***************************************************************************)
VARIABLES
  token_stats,           \* st.session_state.token_stats
  session_backup,        \* st.session_state._session_backup
  messages,              \* st.session_state.messages: a list reference
  session_id,            \* st.session_state.session_id
  session_info,          \* st.session_state.session_info
  last_processed_prompt, \* st.session_state._last_processed_prompt
  lists,                 \* the heap of list objects
  pc,                    \* position of the running script, "idle" between runs
  prompt,                \* local: the chat input of this run
  current_session_id,    \* local of main (line 198)
  payload,               \* local of send_chat_request: the request body sent
  response,              \* local: what send_chat_request returned
  old_session_id,        \* local of main (line 225)
  query_cost,            \* locals of lines 291-298 (the per-query report)
  now,                   \* the clock read by datetime.now(); one tick per run
  pre,                   \* history: the store as this run found it after lines 85-150
  outcome                \* history: the kind of run, and how the last one ended

store == <<token_stats, session_backup, messages, session_id, session_info,
           last_processed_prompt, lists>>
locals == <<prompt, current_session_id, payload, response, old_session_id, query_cost>>
vars == <<token_stats, session_backup, messages, session_id, session_info,
          last_processed_prompt, lists, pc, prompt, current_session_id, payload,
          response, old_session_id, query_cost, now, pre, outcome>>

\* The list object a reference names ([] for a missing key).
ListOf(heap, ref) == IF ref = NoList THEN <<>> ELSE heap[ref]
\* The transcript: the content of st.session_state.messages.
Msgs == ListOf(lists, messages)
\* The content of _session_backup["messages"].
BackupMsgs == IF session_backup = AbsentDict THEN <<>>
              ELSE ListOf(lists, session_backup.messages)

\* Unreferenced list objects are collected (their content is dropped).
Collect(heap, refs) == [i \in ListIds |-> IF i \in refs THEN heap[i] ELSE <<>>]
\* A fresh list object: an id no live reference uses.
NewList(refs) == CHOOSE i \in ListIds : i \notin refs /\ \A j \in ListIds : j \notin refs => i <= j

\* The empty store of a new browser session: no key is set.
Init ==
  /\ token_stats = AbsentDict
  /\ session_backup = AbsentDict
  /\ messages = NoList
  /\ session_id = Absent
  /\ session_info = AbsentDict
  /\ last_processed_prompt = Absent
  /\ lists = [i \in ListIds |-> <<>>]
  /\ pc = "idle"
  /\ prompt = None
  /\ current_session_id = None
  /\ payload = NoneDict
  /\ response = NoneDict
  /\ old_session_id = None
  /\ query_cost = NoneDict
  /\ now = 0
  /\ pre = NoneDict
  /\ outcome = "none"

(***************************************************************************)
(* Inputs: what the service may answer                                     *)
(***************************************************************************)
EmptyDict == <<>>
\* One optional key of a JSON object.
Field(key, present, value) == IF present THEN key :> value ELSE EmptyDict

\* A usage block of an ordinary answer.
NormalTokens == [prompt |-> 2, completion |-> 1, total |-> 3, cached_tokens |-> 1]

\* The "tokens" object; every field is optional (tokens.get(..., 0)) and the
\* service is free to send any integers.
TokenBlocks ==
  {EmptyDict}
    \cup {[prompt |-> p, completion |-> k, total |-> p + k, cached_tokens |-> c] :
            p \in TokenVals, c \in TokenVals, k \in {0, 1}}

\* The JSON body of a status-200 answer: response, session_id, is_new_session
\* and tokens are each present or not.
ResponsesWith(blocks) ==
  {   Field("response", t # Absent, t)
   @@ Field("session_id", s # Absent, s)
   @@ Field("is_new_session", n # Absent, n = "true")
   @@ b :
     t \in Texts \cup {Absent}, s \in SessionIds \cup {Absent},
     n \in {Absent, "false", "true"},
     b \in {EmptyDict} \cup {"tokens" :> k : k \in blocks}}

\* Answers of every session shape, with an ordinary usage block or none.
Responses == ResponsesWith({NormalTokens})

\* Answers of every usage shape, without session fields.
UsageResponses ==
  {("response" :> "hi") @@ b : b \in {EmptyDict} \cup {"tokens" :> k : k \in TokenBlocks}}

\* How a request fails: a non-200 status (lines 45-47) or
\* requests.exceptions.ConnectionError (lines 48-50).
Failures == {"status", "ConnectionError"}

(***************************************************************************)
(* Start of a run: lines 85-96 and 116-150                                 *)
(***************************************************************************)
FreshStats ==
  [ total_prompt_tokens |-> 0, total_completion_tokens |-> 0, total_tokens |-> 0,
    query_count |-> 0, cached_tokens |-> 0,
    cache_hit_rate |-> [num |-> 0, den |-> 1],
    total_cost |-> 0, cache_miss_cost |-> 0, cache_hit_cost |-> 0 ]

\* if 'token_stats' not in st.session_state
InitStats(stats) == IF stats = AbsentDict THEN FreshStats ELSE stats

\* if "_session_backup" not in st.session_state
InitBackup(backup, msgRef) ==
  IF backup = AbsentDict
    THEN [session_id |-> None, messages |-> NewList({msgRef}), session_info |-> NoneDict]
    ELSE backup

\* if "messages" not in st.session_state: the backup's list object when it is
\* non-empty, a new list otherwise.
InitMessages(msgRef, backup, heap) ==
  IF msgRef # NoList THEN msgRef
  ELSE IF heap[backup.messages] # <<>> THEN backup.messages
  ELSE NewList({backup.messages})

\* InitSessionId without the look at the backup: a missing id starts as None.
InitSessionId_Fresh(sid, backup) == IF sid # Absent THEN sid ELSE None

\* if "session_id" not in st.session_state
InitSessionId(sid, backup) ==
  IF sid # Absent THEN sid
  ELSE IF Truthy(backup.session_id) THEN backup.session_id
  ELSE None

\* if "session_info" not in st.session_state
InitSessionInfo(info, backup) ==
  IF info # AbsentDict THEN info
  ELSE IF backup.session_info # NoneDict THEN backup.session_info
  ELSE NoneDict

\* The store as a run sees it, lists by content.
Snapshot(stats, backup, msgRef, sid, info, last, heap) ==
  [ token_stats |-> stats,
    backup |-> [session_id |-> backup.session_id,
                messages |-> heap[backup.messages],
                session_info |-> backup.session_info],
    messages |-> heap[msgRef],
    session_id |-> sid,
    session_info |-> info,
    last_processed_prompt |-> last ]

\* Lines 85-150 as one update of the store.
InitBlock ==
  LET backup == InitBackup(session_backup, messages)
      heap1 == IF session_backup = AbsentDict
                 THEN Collect(lists, {messages} \ {NoList}) ELSE lists
      msgRef == InitMessages(messages, backup, heap1)
      heap == Collect(heap1, {msgRef, backup.messages})
  IN /\ token_stats' = InitStats(token_stats)
     /\ session_backup' = backup
     /\ messages' = msgRef
     /\ lists' = heap
     /\ session_id' = InitSessionId(session_id, backup)
     /\ session_info' = InitSessionInfo(session_info, backup)
     /\ UNCHANGED last_processed_prompt
     /\ pre' = Snapshot(token_stats', backup, msgRef, session_id', session_info',
                        last_processed_prompt, heap)

ClearLocals ==
  /\ prompt' = None
  /\ current_session_id' = None
  /\ payload' = NoneDict
  /\ response' = NoneDict
  /\ old_session_id' = None
  /\ query_cost' = NoneDict

\* The host runs the script: for an interaction of the user, or at once
\* after st.rerun().
StartRun ==
  /\ \/ pc = "idle" /\ now < MaxRuns /\ now' = now + 1 /\ outcome' = "run"
     \/ pc = "rerun" /\ now' = now /\ outcome' = "rerun"
  /\ InitBlock
  /\ pc' = "chat_input"
  /\ UNCHANGED locals

\* How a run ends: the script returns, or an exception stops it. Its locals
\* are gone.
EndRun(how) ==
  /\ pc' = "idle"
  /\ outcome' = how
  /\ pre' = NoneDict
  /\ ClearLocals

(***************************************************************************)
(* The chat input: lines 172-184                                           *)
(***************************************************************************)
\* st.chat_input returned None: nothing was submitted for this run.
NoInput ==
  /\ pc = "chat_input"
  /\ EndRun("no_input")
  /\ UNCHANGED <<store, now>>

\* Line 172: the user submitted p; a run started by st.rerun() has no input.
ChatInput(p) ==
  /\ pc = "chat_input"
  /\ outcome = "run"
  /\ prompt' = p
  /\ pc' = "admit"
  /\ UNCHANGED <<store, current_session_id, payload, response, old_session_id,
                 query_cost, now, pre, outcome>>

\* IsDuplicate without the comparison: no prompt is ever taken for a duplicate.
IsDuplicate_Never(last, p) == FALSE

\* Line 174: the prompt is the one processed last.
IsDuplicate(last, p) == last # Absent /\ last = p

\* Lines 174-176: a duplicate prompt returns at once.
DuplicatePrompt ==
  /\ pc = "admit"
  /\ IsDuplicate(last_processed_prompt, prompt)
  /\ EndRun("duplicate")
  /\ UNCHANGED <<store, now>>

UserMessage(p) == [role |-> "user", content |-> p]
AssistantMessage(text) == [role |-> "assistant", content |-> text]

\* AdmitBackup without line 184: the backup is left as it is.
AdmitBackup_Skip(backup, msgRef) == backup

\* Line 184: _session_backup["messages"] = st.session_state.messages makes
\* the backup name the transcript's list object.
AdmitBackup(backup, msgRef) == [backup EXCEPT !.messages = msgRef]

\* Admit without line 181: the user message is not appended.
Admit_NoAppend ==
  /\ pc = "admit"
  /\ ~IsDuplicate(last_processed_prompt, prompt)
  /\ last_processed_prompt' = prompt
  /\ session_backup' = AdmitBackup(session_backup, messages)
  /\ lists' = Collect(lists, {messages, session_backup'.messages})
  /\ pc' = "send"
  /\ UNCHANGED <<token_stats, messages, session_id, session_info, locals, now, pre,
                 outcome>>

\* Lines 178-184: the prompt is recorded and appended, and the backup's
\* messages made the transcript's list.
Admit ==
  /\ pc = "admit"
  /\ ~IsDuplicate(last_processed_prompt, prompt)
  /\ last_processed_prompt' = prompt
  /\ session_backup' = AdmitBackup(session_backup, messages)
  /\ lists' = Collect([lists EXCEPT ![messages] = Append(@, UserMessage(prompt))],
                      {messages, session_backup'.messages})
  /\ pc' = "send"
  /\ UNCHANGED <<token_stats, messages, session_id, session_info, locals, now, pre,
                 outcome>>

(***************************************************************************)
(* The request: lines 198-208 and send_chat_request, lines 22-50           *)
(***************************************************************************)
\* Payload without the test of line 33: session_id is always sent.
Payload_AlwaysSessionId(question, sid) ==
  ("question" :> question) @@ ("session_id" :> sid)

\* Lines 24-34: session_id is in the payload only when it is truthy.
Payload(question, sid) ==
  ("question" :> question) @@ Field("session_id", Truthy(sid), sid)

\* Lines 206-208: a session id lost during the call is put back.
AfterCall(cur, sid) == IF Truthy(cur) /\ ~Truthy(sid) THEN cur ELSE sid

\* Lines 198-208 with the value send_chat_request returned.
Send(returned) ==
  /\ pc = "send"
  /\ current_session_id' = session_id
  /\ payload' = Payload(prompt, session_id)
  /\ response' = returned
  /\ session_id' = AfterCall(current_session_id', session_id)
  /\ pc' = IF returned # NoneDict THEN "respond" ELSE "failed"
  /\ UNCHANGED <<token_stats, session_backup, messages, session_info,
                 last_processed_prompt, lists, prompt, old_session_id, query_cost,
                 now, pre, outcome>>

\* The service answers 200 with body r (lines 43-44).
SendOk(r) == Send(r)

\* The request fails and send_chat_request returns None (lines 45-50).
SendFail(kind) == Send(NoneDict)

\* Failed with the error text also appended to the transcript.
Failed_AppendsError ==
  /\ pc = "failed"
  /\ lists' = [lists EXCEPT ![messages] =
                 Append(@, AssistantMessage("Failed to get response from the AI assistant"))]
  /\ EndRun("failed")
  /\ UNCHANGED <<token_stats, session_backup, messages, session_id, session_info,
                 last_processed_prompt, now>>

\* Lines 334-335: the failure is reported and the run ends.
Failed ==
  /\ pc = "failed"
  /\ EndRun("failed")
  /\ UNCHANGED <<store, now>>

(***************************************************************************)
(* The answer: lines 217-272                                               *)
(***************************************************************************)
\* Line 218: response.get('response', 'No response available')
AiResponse(r) == Get(r, "response", "No response available")

\* Lines 217-220: the assistant message is appended to the transcript's list.
Respond ==
  /\ pc = "respond"
  /\ lists' = [lists EXCEPT ![messages] = Append(@, AssistantMessage(AiResponse(response)))]
  /\ pc' = IF "session_id" \in DOMAIN response THEN "session" ELSE "tokens"
  /\ UNCHANGED <<token_stats, session_backup, messages, session_id, session_info,
                 last_processed_prompt, locals, now, pre, outcome>>

\* ReconcileSessionId without lines 236-238: whatever id the answer carries
\* is adopted.
ReconcileSessionId_NoPreserve(old, r) ==
  LET new == r["session_id"] IN IF old # new THEN new ELSE old

\* ReconcileSessionId with lines 236-238 not looking at is_new_session: a held
\* id always wins.
ReconcileSessionId_AlwaysPreserve(old, r) ==
  IF Truthy(old) THEN old ELSE r["session_id"]

\* Lines 225-238: the session id after an answer carrying session_id.
ReconcileSessionId(old, r) ==
  LET new == r["session_id"]
      adopted == IF old # new THEN new ELSE old
  IN IF ~Get(r, "is_new_session", FALSE) /\ Truthy(old) THEN old ELSE adopted

\* Lines 241-243: the backup takes the store's three fields as they are then.
ReconcileBackup(sid, msgRef, info) ==
  [session_id |-> sid, messages |-> msgRef, session_info |-> info]

\* Lines 247-253: a new session replaces session_info.
ReconcileSessionInfo(info, r, t) ==
  IF Get(r, "is_new_session", FALSE)
    THEN [session_id |-> r["session_id"], is_new |-> TRUE, started_at |-> t]
    ELSE info

\* Lines 223-253, in the order of the code: session id, backup, session info.
Reconcile ==
  /\ pc = "session"
  /\ old_session_id' = session_id
  /\ session_id' = ReconcileSessionId(session_id, response)
  /\ session_backup' = ReconcileBackup(session_id', messages, session_info)
  /\ lists' = Collect(lists, {messages})
  /\ session_info' = ReconcileSessionInfo(session_info, response, now)
  /\ pc' = "sidebar"
  /\ UNCHANGED <<token_stats, messages, last_processed_prompt, prompt,
                 current_session_id, payload, response, query_cost, now, pre, outcome>>

\* Line 260 subscripts session_info: with session_info None that raises
\* TypeError.
SidebarRaises(info) == info = NoneDict

\* Lines 256-261: the session panel; an exception stops the run there.
Sidebar ==
  /\ pc = "sidebar"
  /\ IF SidebarRaises(session_info)
       THEN EndRun("error")
       ELSE pc' = "button" /\ UNCHANGED <<locals, pre, outcome>>
  /\ UNCHANGED <<store, now>>

\* Line 264: st.button returned False.
NoReset ==
  /\ pc = "button"
  /\ pc' = "tokens"
  /\ UNCHANGED <<store, locals, now, pre, outcome>>

\* Reset clearing the usage totals as well.
Reset_ClearsStats ==
  /\ pc = "button"
  /\ session_id' = None
  /\ session_info' = NoneDict
  /\ messages' = NewList({session_backup.messages})
  /\ lists' = Collect(lists, {session_backup.messages})
  /\ token_stats' = FreshStats
  /\ pc' = "rerun"
  /\ outcome' = "reset"
  /\ pre' = NoneDict
  /\ ClearLocals
  /\ UNCHANGED <<session_backup, last_processed_prompt, now>>

\* Lines 264-272: st.button returned True; the three fields are cleared
\* (messages becomes a new list) and st.rerun() stops this run.
Reset ==
  /\ pc = "button"
  /\ session_id' = None
  /\ session_info' = NoneDict
  /\ messages' = NewList({session_backup.messages})
  /\ lists' = Collect(lists, {session_backup.messages})
  /\ pc' = "rerun"
  /\ outcome' = "reset"
  /\ pre' = NoneDict
  /\ ClearLocals
  /\ UNCHANGED <<token_stats, session_backup, last_processed_prompt, now>>

(***************************************************************************)
(* Token accounting: lines 274-333                                         *)
(***************************************************************************)
\* Line 293: the prompt tokens that were not cached.
CacheMissTokens(prompt_tokens, cached_tokens) == prompt_tokens - cached_tokens

\* QueryCost with the total taken from the cache misses alone.
QueryCost_MissOnly(tokens) ==
  LET prompt_tokens == Get(tokens, "prompt", 0)
      cached_tokens == Get(tokens, "cached_tokens", 0)
      cache_miss_tokens == CacheMissTokens(prompt_tokens, cached_tokens)
      cache_hit_cost == cached_tokens * CACHE_HIT_COST_PER_1M
      cache_miss_cost == cache_miss_tokens * CACHE_MISS_COST_PER_1M
  IN [ prompt_tokens |-> prompt_tokens,
       cached_tokens |-> cached_tokens,
       cache_miss_tokens |-> cache_miss_tokens,
       cache_hit_cost |-> cache_hit_cost,
       cache_miss_cost |-> cache_miss_cost,
       total_cost |-> cache_miss_cost ]

\* Lines 291-298: the cost of this query. Costs are in units of 1e-8 dollars:
\* (tokens / 1_000_000) * (cents / 100) = tokens * cents * 1e-8.
QueryCost(tokens) ==
  LET prompt_tokens == Get(tokens, "prompt", 0)
      cached_tokens == Get(tokens, "cached_tokens", 0)
      cache_miss_tokens == CacheMissTokens(prompt_tokens, cached_tokens)
      cache_hit_cost == cached_tokens * CACHE_HIT_COST_PER_1M
      cache_miss_cost == cache_miss_tokens * CACHE_MISS_COST_PER_1M
  IN [ prompt_tokens |-> prompt_tokens,
       cached_tokens |-> cached_tokens,
       cache_miss_tokens |-> cache_miss_tokens,
       cache_hit_cost |-> cache_hit_cost,
       cache_miss_cost |-> cache_miss_cost,
       total_cost |-> cache_hit_cost + cache_miss_cost ]

\* CacheHitRate falling back to 0 when there are no prompt tokens.
CacheHitRate_ResetsToZero(rate, cached, total_prompt) ==
  IF total_prompt > 0 THEN [num |-> cached * 100, den |-> total_prompt]
  ELSE [num |-> 0, den |-> 1]

\* Lines 284-288: cached_tokens / total_prompt_tokens * 100 as an exact
\* fraction, recomputed only when total_prompt_tokens > 0.
CacheHitRate(rate, cached, total_prompt) ==
  IF total_prompt > 0 THEN [num |-> cached * 100, den |-> total_prompt] ELSE rate

\* Lines 277-303: the totals after one usage block.
RecordStats(stats, tokens) ==
  LET total_prompt == stats.total_prompt_tokens + Get(tokens, "prompt", 0)
      cached == stats.cached_tokens + Get(tokens, "cached_tokens", 0)
      cost == QueryCost(tokens)
  IN [ query_count |-> stats.query_count + 1,
       total_prompt_tokens |-> total_prompt,
       total_completion_tokens |-> stats.total_completion_tokens + Get(tokens, "completion", 0),
       total_tokens |-> stats.total_tokens + Get(tokens, "total", 0),
       cached_tokens |-> cached,
       cache_hit_rate |-> CacheHitRate(stats.cache_hit_rate, cached, total_prompt),
       cache_hit_cost |-> stats.cache_hit_cost + cost.cache_hit_cost,
       cache_miss_cost |-> stats.cache_miss_cost + cost.cache_miss_cost,
       total_cost |-> stats.total_cost + cost.total_cost ]

\* Line 275: the answer has no tokens block; the run ends.
NoTokens ==
  /\ pc = "tokens"
  /\ "tokens" \notin DOMAIN response
  /\ EndRun("ok")
  /\ UNCHANGED <<store, now>>

\* Lines 275-303.
Record ==
  /\ pc = "tokens"
  /\ "tokens" \in DOMAIN response
  /\ token_stats' = RecordStats(token_stats, response["tokens"])
  /\ query_cost' = QueryCost(response["tokens"])
  /\ pc' = "report"
  /\ UNCHANGED <<session_backup, messages, session_id, session_info,
                 last_processed_prompt, lists, prompt, current_session_id, payload,
                 response, old_session_id, now, pre, outcome>>

\* Lines 330-333: with cached_tokens > 0 the report divides by prompt_tokens,
\* and a zero there raises ZeroDivisionError.
ReportRaises(cost) == cost.cached_tokens > 0 /\ cost.prompt_tokens = 0

\* Lines 306-333: the per-query report; an exception stops the run there.
Report ==
  /\ pc = "report"
  /\ EndRun(IF ReportRaises(query_cost) THEN "error" ELSE "ok")
  /\ UNCHANGED <<store, now>>

(***************************************************************************)
(* The host loses keys of the store between two runs                       *)
(***************************************************************************)
PrimaryKeys == {"messages", "session_id", "session_info"}

HostLoss(keys) ==
  /\ pc = "idle"
  /\ session_backup # AbsentDict
  /\ \/ "messages" \in keys /\ messages # NoList
     \/ "session_id" \in keys /\ session_id # Absent
     \/ "session_info" \in keys /\ session_info # AbsentDict
  /\ messages' = IF "messages" \in keys THEN NoList ELSE messages
  /\ session_id' = IF "session_id" \in keys THEN Absent ELSE session_id
  /\ session_info' = IF "session_info" \in keys THEN AbsentDict ELSE session_info
  /\ lists' = Collect(lists, {messages', session_backup.messages} \ {NoList})
  /\ outcome' = "lost"
  /\ UNCHANGED <<token_stats, session_backup, last_processed_prompt, pc, now, pre, locals>>

\* Every step of every run, and the host's losses between runs.
Next ==
  \/ StartRun
  \/ NoInput
  \/ \E p \in Prompts : ChatInput(p)
  \/ DuplicatePrompt
  \/ Admit
  \/ \E r \in Responses : SendOk(r)
  \/ \E k \in Failures : SendFail(k)
  \/ Failed
  \/ Respond
  \/ Reconcile
  \/ Sidebar
  \/ NoReset
  \/ Reset
  \/ NoTokens
  \/ Record
  \/ Report
  \/ \E keys \in SUBSET PrimaryKeys : HostLoss(keys)

Spec == Init /\ [][Next]_vars

\* The accounting path alone: answers of every usage shape and no session
\* fields, so that lines 223-272 are not entered.
NextUsage ==
  \/ StartRun
  \/ NoInput
  \/ \E p \in Prompts : ChatInput(p)
  \/ DuplicatePrompt
  \/ Admit
  \/ \E r \in UsageResponses : SendOk(r)
  \/ \E k \in Failures : SendFail(k)
  \/ Failed
  \/ Respond
  \/ NoTokens
  \/ Record
  \/ Report

SpecUsage == Init /\ [][NextUsage]_vars

(***************************************************************************)
(* Properties                                                              *)
(***************************************************************************)
\* The flag of the answer being handled.
IsNewSession == Get(response, "is_new_session", FALSE)

\* A step that ends a run: the script returns, raises, or calls st.rerun().
EndsRun == pc \notin {"idle", "rerun"} /\ pc' \in {"idle", "rerun"}

\* C1 (session stickiness): whenever lines 223-253 handle an answer carrying
\* session_id while a session id is held and the answer's is_new_session is
\* false or absent, the held session id is the same after as before,
\* whatever id the answer carries.
C1_SessionStickiness ==
  [][(pc = "session" /\ session_id # None /\ ~IsNewSession)
       => session_id' = session_id]_vars

\* C1 witness: an answer carrying S2, not flagged new, was reconciled while S1
\* was held, and S1 is still held.
C1_Witness ==
  /\ pc = "sidebar"
  /\ old_session_id = "S1"
  /\ response["session_id"] = "S2"
  /\ ~IsNewSession
  /\ session_id = "S1"

\* C2 (session adoption): whenever lines 223-253 handle an answer carrying
\* session_id S, if no session id is held or the answer is flagged new then S
\* is held afterwards, and if the answer is flagged new then session_info is
\* afterwards {session_id: S, is_new: true, started_at: the time of the run}.
C2_SessionAdoption ==
  [][pc = "session" =>
       /\ (session_id = None \/ IsNewSession) => session_id' = response["session_id"]
       /\ IsNewSession =>
            session_info' = [session_id |-> response["session_id"], is_new |-> TRUE,
                             started_at |-> now]]_vars

\* C2 witness: S1 was held and an answer flagged new carrying S2 was
\* reconciled: S2 is held and session_info describes it.
C2_Witness ==
  /\ pc = "sidebar"
  /\ old_session_id = "S1"
  /\ IsNewSession
  /\ response["session_id"] = "S2"
  /\ session_id = "S2"
  /\ session_info = [session_id |-> "S2", is_new |-> TRUE, started_at |-> now]

\* C3 (duplicate suppression): a prompt equal to the last processed prompt
\* ends the run at once, with no request and the whole store as it was; and
\* the last processed prompt is always the prompt admitted last, as it
\* changes only when a prompt is admitted, to that prompt.
C3_DuplicateSuppression ==
  [][/\ (pc = "admit" /\ prompt = last_processed_prompt)
          => (pc' = "idle" /\ UNCHANGED store)
     /\ (pc = "admit" /\ pc' = "send") => last_processed_prompt' = prompt
     /\ ~(pc = "admit" /\ pc' = "send") => UNCHANGED last_processed_prompt]_vars

\* C3 witness: a run was ended by a duplicate of the prompt that heads the
\* transcript's last turn.
C3_Witness ==
  /\ pc = "idle"
  /\ outcome = "duplicate"
  /\ Msgs # <<>>
  /\ \E i \in 1..Len(Msgs) :
       Msgs[i] = UserMessage(last_processed_prompt)

\* C4 (failure contract): when the request of an admitted prompt fails, the
\* run ends with token_stats, session_id and session_info as the run found
\* them, the transcript the one it found plus the user message alone, and the
\* prompt as last processed prompt.
C4_FailureContract ==
  [][pc = "failed" =>
       /\ token_stats' = pre.token_stats
       /\ session_id' = pre.session_id
       /\ session_info' = pre.session_info
       /\ Msgs' = Append(pre.messages, UserMessage(prompt))
       /\ last_processed_prompt' = prompt]_vars

\* C4 witness: a run with a session held and queries counted ended in a
\* failed request; the transcript ends with the user message.
C4_Witness ==
  /\ pc = "idle"
  /\ outcome = "failed"
  /\ session_id \in SessionIds
  /\ token_stats.query_count > 0
  /\ Len(Msgs) >= 3
  /\ Msgs[Len(Msgs)] = UserMessage(last_processed_prompt)

\* C5 (backup after reconcile), as claimed: once lines 223-253 have handled
\* an answer carrying session_id, the backup equals the store in session_id,
\* messages and session_info.
C5_BackupAfterReconcile ==
  pc = "sidebar" =>
    /\ session_backup.session_id = session_id
    /\ BackupMsgs = Msgs
    /\ session_backup.session_info = session_info

\* C6 (backup restore): at the start of a run each of messages, session_id
\* and session_info that is missing from the store takes the backup's value
\* when that is non-empty and the empty value ([], None, None) otherwise, and
\* one that is present keeps its value.
C6_BackupRestore ==
  [][pc' = "chat_input" =>
       /\ Msgs' = IF messages # NoList THEN Msgs
                  ELSE IF BackupMsgs # <<>> THEN BackupMsgs ELSE <<>>
       /\ session_id' =
            IF session_id # Absent THEN session_id
            ELSE IF session_backup # AbsentDict /\ session_backup.session_id # None
                   THEN session_backup.session_id ELSE None
       /\ session_info' =
            IF session_info # AbsentDict THEN session_info
            ELSE IF session_backup # AbsentDict /\ session_backup.session_info # NoneDict
                   THEN session_backup.session_info ELSE NoneDict]_vars

\* C6 witness: a run starts with the session id of the backup while the
\* transcript and session_info are the cleared ones of a reset: the session
\* id alone was missing and restored, the present fields were left alone.
C6_Witness ==
  /\ pc = "chat_input"
  /\ session_id \in SessionIds
  /\ session_id = session_backup.session_id
  /\ Msgs = <<>>
  /\ BackupMsgs # <<>>
  /\ session_info = NoneDict
  /\ session_backup.session_info # NoneDict

\* The store's value and the backup's value of a field are both non-empty and
\* differ: in the store a run found (d = pre) ...
DivergedIn(d) ==
  \/ d.messages # <<>> /\ d.backup.messages # <<>> /\ d.messages # d.backup.messages
  \/ Truthy(d.session_id) /\ Truthy(d.backup.session_id)
       /\ d.session_id # d.backup.session_id
  \/ d.session_info # NoneDict /\ d.backup.session_info # NoneDict
       /\ d.session_info # d.backup.session_info

\* ... and in the store as it is.
Diverged ==
  DivergedIn(Snapshot(token_stats, session_backup, messages, session_id,
                      session_info, last_processed_prompt, lists))

\* C7 (store and backup agree across runs), as claimed: no run both finds
\* and leaves store and backup non-empty and different in one of messages,
\* session_id and session_info.
C7_PrimaryBackupAgreement ==
  [][EndsRun => ~(DivergedIn(pre) /\ Diverged')]_vars

\* C8 (one accounting step per successful answer), as claimed: a run that
\* received an answer with a tokens block ends with query_count one above
\* what it found, and any other run ends with token_stats as it found them.
C8_OneAccountingStep ==
  [][EndsRun =>
       IF response # NoneDict /\ "tokens" \in DOMAIN response
         THEN token_stats'.query_count = pre.token_stats.query_count + 1
         ELSE token_stats' = pre.token_stats]_vars

\* The seven totals of token_stats.
Totals ==
  {"total_prompt_tokens", "total_completion_tokens", "total_tokens", "cached_tokens",
   "total_cost", "cache_hit_cost", "cache_miss_cost"}

\* C9 (monotone totals), as claimed: for any usage fields, every total is
\* >= 0 and no step lowers it.
C9_MonotoneTotals ==
  [][/\ token_stats' # AbsentDict => \A k \in Totals : token_stats'[k] >= 0
     /\ (token_stats # AbsentDict /\ token_stats' # AbsentDict)
          => \A k \in Totals : token_stats'[k] >= token_stats[k]]_vars

\* C10 (cache hit rate range), as claimed: for any usage fields,
\* 0 <= cache_hit_rate <= 100.
C10_CacheHitRateRange ==
  token_stats # AbsentDict =>
    /\ 0 <= token_stats.cache_hit_rate.num
    /\ token_stats.cache_hit_rate.num <= 100 * token_stats.cache_hit_rate.den

\* The step of lines 275-303: one usage block is recorded.
RecordStep == pc = "tokens" /\ pc' = "report"

\* Two exact fractions are the same number.
SameRate(a, b) == a.num * b.den = b.num * a.den

\* C11 (per-query cost), as claimed: recording a usage block adds
\* hitCost = cached_tokens * 0.07 / 1M to cache_hit_cost,
\* missCost = max(0, prompt - cached_tokens) * 0.27 / 1M to cache_miss_cost
\* and hitCost + missCost to total_cost (in units of 1e-8 dollars).
C11_PerQueryCost ==
  [][RecordStep =>
       LET prompt_tokens == Get(response["tokens"], "prompt", 0)
           cached_tokens == Get(response["tokens"], "cached_tokens", 0)
           missTokens == IF prompt_tokens - cached_tokens > 0
                           THEN prompt_tokens - cached_tokens ELSE 0
           hitCost == cached_tokens * 7
           missCost == missTokens * 27
       IN /\ token_stats'.cache_hit_cost = token_stats.cache_hit_cost + hitCost
          /\ token_stats'.cache_miss_cost = token_stats.cache_miss_cost + missCost
          /\ token_stats'.total_cost = token_stats.total_cost + hitCost + missCost]_vars

\* C12 (cache hit rate recomputation): after a usage block is recorded,
\* cache_hit_rate is cached_tokens / total_prompt_tokens * 100 of the totals
\* after it when total_prompt_tokens > 0 and its previous value otherwise;
\* a block of zeros leaves cache_hit_rate and total_cost as they were and
\* adds 1 to query_count.
C12_CacheHitRateRecomputed ==
  [][RecordStep =>
       LET tokens == response["tokens"]
           after == token_stats'
           allZero == \A k \in {"prompt", "completion", "total", "cached_tokens"} :
                        Get(tokens, k, 0) = 0
       IN /\ after.total_prompt_tokens > 0 =>
               SameRate(after.cache_hit_rate,
                        [num |-> after.cached_tokens * 100,
                         den |-> after.total_prompt_tokens])
          /\ ~(after.total_prompt_tokens > 0) =>
               after.cache_hit_rate = token_stats.cache_hit_rate
          /\ allZero =>
               /\ SameRate(after.cache_hit_rate, token_stats.cache_hit_rate)
               /\ after.total_cost = token_stats.total_cost
               /\ after.query_count = token_stats.query_count + 1]_vars

\* C12 witness: a block of zeros was recorded after others, with the cache
\* hit rate at 50 and a cost accrued.
C12_Witness ==
  /\ pc = "report"
  /\ \A k \in DOMAIN response["tokens"] : response["tokens"][k] = 0
  /\ token_stats.query_count >= 2
  /\ SameRate(token_stats.cache_hit_rate, [num |-> 50, den |-> 1])
  /\ token_stats.total_cost > 0

\* C13 (record never fails), as claimed: for any usage block the accounting
\* and its per-query report end without an exception.
C13_RecordNeverFails ==
  [][pc = "report" => outcome' = "ok"]_vars

\* The step of lines 198-208: the request is sent.
SendStep == pc = "send" /\ pc' \in {"respond", "failed"}

\* The session id the next run works with: the store's, or for a key the
\* host lost the one the start of the run will put there.
HeldId ==
  IF session_id # Absent THEN session_id
  ELSE IF session_backup = AbsentDict THEN None
  ELSE session_backup.session_id

\* C14 (the request carries the held session): every request has the key
\* session_id exactly when a session id is held when it is sent, with that
\* id as value; and a held session id changes only by an answer flagged new
\* or by a reset, so that every request until then carries it.
C14_RequestCarriesSession ==
  [][/\ SendStep =>
          /\ payload'["question"] = prompt
          /\ ("session_id" \in DOMAIN payload') <=> (session_id # None)
          /\ session_id # None => payload'["session_id"] = session_id
     /\ (HeldId \in SessionIds /\ HeldId' # HeldId) =>
          \/ pc = "session" /\ IsNewSession
          \/ pc = "button" /\ pc' = "rerun"]_vars

\* C14 witness: in a later run a request went out carrying the session id
\* S1 that an earlier exchange had set.
C14_Witness ==
  /\ pc \in {"respond", "failed"}
  /\ now >= 2
  /\ session_id = "S1"
  /\ payload = [question |-> prompt, session_id |-> "S1"]
  /\ session_backup.session_id = "S1"

\* A reset has run and no answer carrying session_id has been reconciled
\* since: the store's session id is None while the backup still has one.
AfterReset ==
  /\ session_id = None
  /\ session_backup # AbsentDict
  /\ Truthy(session_backup.session_id)

\* The backup, its list by content.
BackupContent ==
  [session_id |-> session_backup.session_id,
   messages |-> BackupMsgs,
   session_info |-> session_backup.session_info]

\* C15 (the backup survives a reset), as claimed: from a reset until the end
\* of the next reconcile of an answer carrying session_id, no step changes a
\* field of the backup, so that a loss of the store in between restores the
\* session id, messages and session info from before the reset.
C15_BackupSurvivesReset ==
  [][(AfterReset /\ pc # "session") => BackupContent' = BackupContent]_vars

\* The step of lines 264-272: the reset button was pressed.
ResetStep == pc = "button" /\ pc' = "rerun"

\* C16 (reset, effect and frame): a reset sets session_id to None,
\* session_info to None and messages to [], and leaves every other stored
\* value as it was: token_stats, the last processed prompt and the backup.
C16_ResetEffectAndFrame ==
  [][ResetStep =>
       /\ session_id' = None
       /\ session_info' = NoneDict
       /\ Msgs' = <<>>
       /\ token_stats' = token_stats
       /\ last_processed_prompt' = last_processed_prompt
       /\ BackupContent' = BackupContent]_vars

\* C16 witness: a reset has just run in a store with queries counted, costs
\* accrued and a last processed prompt; the three fields are cleared and the
\* backup still has the session.
C16_Witness ==
  /\ pc = "rerun"
  /\ outcome = "reset"
  /\ session_id = None
  /\ session_info = NoneDict
  /\ Msgs = <<>>
  /\ token_stats.query_count > 0
  /\ token_stats.total_cost > 0
  /\ last_processed_prompt \in Prompts
  /\ BackupMsgs # <<>>

\* C17 (the backup's messages follow every admitted turn): every run that
\* admitted a prompt and did not reset ends with the backup's messages equal
\* to the transcript, whether the request failed, the answer had no
\* session_id, or the answer was reconciled.
C17_BackupTracksAdmittedTurns ==
  [][(EndsRun /\ pc' = "idle" /\ pc \notin {"chat_input", "admit"})
       => BackupMsgs' = Msgs']_vars

\* C17 witness: a run answered without session_id has ended; no reconcile
\* ever wrote the backup, and its messages are the transcript with the
\* assistant message.
C17_Witness ==
  /\ pc = "idle"
  /\ outcome = "ok"
  /\ session_backup.session_id = None
  /\ Len(Msgs) = 2
  /\ Msgs[2]["role"] = "assistant"
  /\ BackupMsgs = Msgs

\* C18 (cost totals stay consistent): in every state total_cost is
\* cache_hit_cost + cache_miss_cost, in exact units of 1e-8 dollars.
C18_CostTotalsConsistent ==
  token_stats # AbsentDict =>
    token_stats.total_cost = token_stats.cache_hit_cost + token_stats.cache_miss_cost

\* C18 witness: after two recorded answers that cost both hits and misses, a
\* turn has failed.
C18_Witness ==
  /\ pc = "idle"
  /\ outcome = "failed"
  /\ token_stats.query_count >= 2
  /\ token_stats.cache_hit_cost > 0
  /\ token_stats.cache_miss_cost > 0
  /\ token_stats.total_cost = token_stats.cache_hit_cost + token_stats.cache_miss_cost

\* C19 (transcript shape): in every state every assistant message of the
\* transcript is immediately preceded by a user message.
C19_TranscriptShape ==
  \A i \in 1..Len(Msgs) :
    Msgs[i]["role"] = "assistant" => (i > 1 /\ Msgs[i - 1]["role"] = "user")

\* C19 witness: the transcript a run restored from the backup has two user
\* messages in a row, the first of a failed turn, then an assistant message.
C19_Witness ==
  /\ pc = "chat_input"
  /\ outcome = "run"
  /\ Len(Msgs) >= 3
  /\ Msgs[1]["role"] = "user"
  /\ Msgs[2]["role"] = "user"
  /\ Msgs[3]["role"] = "assistant"
  /\ messages = session_backup.messages
====
